---- MODULE Spec2Model ----
(***************************************************************************)
(* Type-level control operators of type_freak::control (src/src/control.rs)*)
(* modelled as the compiler's trait resolution.  A type is a record; a     *)
(* type expression that does not resolve (a compile error) is Fail.  For   *)
(* every trait, X_impls is the set of impl blocks of control.rs that apply *)
(* to the given arguments, X is the projection <Self as X<..>>::Output and *)
(* XOutput is the public alias.  One action resolves one item.             *)
(***************************************************************************)
EXTENDS Integers, FiniteSets, Sequences, TLC

VARIABLES item, args, applied, out

vars == <<item, args, applied, out>>

\* Largest numeral of the universe of types (numerals are 0..MaxNum).
MaxNum == 2

-----------------------------------------------------------------------------
(* The universe of types *)

Atom(name) == [k |-> "atom", n |-> name]
Num(i) == [k |-> "num", v |-> i]
\* A type expression that failed to resolve.
Fail == [k |-> "fail"]
\* No item has been resolved yet.
None == [k |-> "none"]

Unit == Atom("()")
U8 == Atom("u8")
True == Atom("True")
False == Atom("False")

\* (A, B): well formed only if both components are.
Tuple(a, b) == IF a = Fail \/ b = Fail THEN Fail ELSE [k |-> "tuple", fst |-> a, snd |-> b]

Numerals == {Num(i) : i \in 0..MaxNum}
\* Types used as Lhs, Rhs and Cond arguments.
Ty == {Unit, U8, True, False, Fail} \cup Numerals
\* Types used as Self (the Output carrier): Ty and pairs.
SelfTy == Ty \cup {Tuple(a, b) : a, b \in {Unit, U8, True, False}}

WellFormed(t) == t # Fail

\* crate::boolean::Boolean: the marker implemented by True and False only.
Boolean == {True, False}

B(cond) == IF cond THEN True ELSE False

-----------------------------------------------------------------------------
(* typenum comparison operators: Lhs: IsX<Rhs> and its output *)

IsLess(l, r) == l.k = "num" /\ r.k = "num"
IsLessOrEqual(l, r) == l.k = "num" /\ r.k = "num"
IsGreater(l, r) == l.k = "num" /\ r.k = "num"
IsGreaterOrEqual(l, r) == l.k = "num" /\ r.k = "num"
IsEqual(l, r) == l.k = "num" /\ r.k = "num"

Le(l, r) == IF IsLess(l, r) THEN B(l.v < r.v) ELSE Fail
LeEq(l, r) == IF IsLessOrEqual(l, r) THEN B(l.v <= r.v) ELSE Fail
Gr(l, r) == IF IsGreater(l, r) THEN B(l.v > r.v) ELSE Fail
GrEq(l, r) == IF IsGreaterOrEqual(l, r) THEN B(l.v >= r.v) ELSE Fail
Eq(l, r) == IF IsEqual(l, r) THEN B(l.v = r.v) ELSE Fail

-----------------------------------------------------------------------------
(* Trait resolution *)

Impl(name, output) == [impl |-> name, out |-> output]

\* <Self as Trait<..>>::Output: resolves iff exactly one impl applies.
Project(impls) == IF Cardinality(impls) = 1 THEN (CHOOSE i \in impls : TRUE).out ELSE Fail

\* tuple::FirstOfOutput<(A, B)>: the first component of a well-formed pair.
FirstOfOutput(t) == IF t # Fail /\ t.k = "tuple" THEN t.fst ELSE Fail

\* Variant of IfOutput that projects the other component of the pair.
IfOutput_second(Output, Cond) == IF Tuple(Output, Cond) # Fail THEN Cond ELSE Fail

\* pub type IfOutput<Output, Cond> = FirstOfOutput<(Output, Cond)>
IfOutput(Output, Cond) == FirstOfOutput(Tuple(Output, Cond))

(* if type equivalence *)

\* Variant of IfSame_impls whose impl has two independent parameters.
IfSame_impls_any(Output, Lhs, Rhs) == {Impl("IfSame<Lhs, Rhs>", Output)}

\* impl<Same, Output> IfSame<Same, Same> for Output
IfSame_impls(Output, Lhs, Rhs) == IF Lhs = Rhs THEN {Impl("IfSame<Same, Same>", Output)} ELSE {}

IfSame(Output, Lhs, Rhs) ==
    IF WellFormed(Output) /\ WellFormed(Lhs) /\ WellFormed(Rhs)
    THEN Project(IfSame_impls(Output, Lhs, Rhs))
    ELSE Fail

IfSameOutput(Output, Lhs, Rhs) == IfSame(Output, Lhs, Rhs)

(* if predicate *)

\* Variant of IfPredicate_impls with a blanket impl over Cond.
IfPredicate_impls_blanket(Output, Cond) == {Impl("IfPredicate<Cond>", Output)}

\* impl<Output> IfPredicate<True> for Output
IfPredicate_impls(Output, Cond) == IF Cond = True THEN {Impl("IfPredicate<True>", Output)} ELSE {}

\* trait IfPredicate<Cond> where Cond: Boolean
IfPredicate(Output, Cond) ==
    IF WellFormed(Output) /\ WellFormed(Cond) /\ Cond \in Boolean
    THEN Project(IfPredicate_impls(Output, Cond))
    ELSE Fail

IfPredicateOutput(Output, Cond) == IfPredicate(Output, Cond)

(* if-else predicate *)

\* Variant of IfElsePredicate_impls whose False impl yields TrueOutput.
IfElsePredicate_impls_sameBranch(Self, Cond) ==
    IF Self # Fail /\ Self.k = "tuple" /\ Cond \in Boolean
    THEN {Impl("IfElsePredicate<Cond>", Self.fst)}
    ELSE {}

\* Variant of IfElsePredicate_impls whose two impls are both generic over Cond.
IfElsePredicate_impls_overlap(Self, Cond) ==
    IF Self # Fail /\ Self.k = "tuple" /\ Cond \in Boolean
    THEN {Impl("IfElsePredicate<True>", Self.fst), Impl("IfElsePredicate<False>", Self.snd)}
    ELSE {}

\* impl IfElsePredicate<True> for (TrueOutput, FalseOutput)
\* impl IfElsePredicate<False> for (TrueOutput, FalseOutput)
IfElsePredicate_impls(Self, Cond) ==
    (IF Self # Fail /\ Self.k = "tuple" /\ Cond = True
     THEN {Impl("IfElsePredicate<True>", Self.fst)} ELSE {})
    \cup
    (IF Self # Fail /\ Self.k = "tuple" /\ Cond = False
     THEN {Impl("IfElsePredicate<False>", Self.snd)} ELSE {})

\* trait IfElsePredicate<Cond> where Cond: Boolean
IfElsePredicate(Self, Cond) ==
    IF WellFormed(Self) /\ WellFormed(Cond) /\ Cond \in Boolean
    THEN Project(IfElsePredicate_impls(Self, Cond))
    ELSE Fail

IfElsePredicateOutput(TrueOutput, FalseOutput, Cond) ==
    IfElsePredicate(Tuple(TrueOutput, FalseOutput), Cond)

(* if not predicate *)

\* Variant of IfNotPredicate_impls implemented for True.
IfNotPredicate_impls_true(Output, Cond) ==
    IF Cond = True THEN {Impl("IfNotPredicate<True>", Output)} ELSE {}

\* impl<Output> IfNotPredicate<False> for Output
IfNotPredicate_impls(Output, Cond) ==
    IF Cond = False THEN {Impl("IfNotPredicate<False>", Output)} ELSE {}

\* trait IfNotPredicate<Cond> where Cond: Boolean
IfNotPredicate(Output, Cond) ==
    IF WellFormed(Output) /\ WellFormed(Cond) /\ Cond \in Boolean
    THEN Project(IfNotPredicate_impls(Output, Cond))
    ELSE Fail

\* pub type IfNotPredicateOutput<Output, Cond> = <Output as IfPredicate<Cond>>::Output
IfNotPredicateOutput(Output, Cond) == IfPredicate(Output, Cond)

(* if less than *)

\* Variant of IfLess_impls that asserts the numerals differ (IfNotPredicate on Eq).
IfLess_impls_notEqual(Output, Lhs, Rhs) ==
    IF IsEqual(Lhs, Rhs) /\ IfNotPredicate(Output, Eq(Lhs, Rhs)) # Fail /\ Eq(Lhs, Rhs) \in Boolean
    THEN {Impl("IfLess<Lhs, Rhs>", IfNotPredicate(Output, Eq(Lhs, Rhs)))}
    ELSE {}

\* impl<Lhs, Rhs, Output> IfLess<Lhs, Rhs> for Output
\*   where Lhs: IsLess<Rhs>, Output: IfPredicate<Le<Lhs, Rhs>>, Le<Lhs, Rhs>: Boolean
IfLess_impls(Output, Lhs, Rhs) ==
    IF IsLess(Lhs, Rhs) /\ IfPredicate(Output, Le(Lhs, Rhs)) # Fail /\ Le(Lhs, Rhs) \in Boolean
    THEN {Impl("IfLess<Lhs, Rhs>", IfPredicateOutput(Output, Le(Lhs, Rhs)))}
    ELSE {}

IfLess(Output, Lhs, Rhs) ==
    IF WellFormed(Output) /\ WellFormed(Lhs) /\ WellFormed(Rhs)
    THEN Project(IfLess_impls(Output, Lhs, Rhs))
    ELSE Fail

IfLessOutput(Output, Lhs, Rhs) == IfLess(Output, Lhs, Rhs)

(* if less than or equal *)

\* Variant of IfLessOrEqual_impls that compares with the strict relation Le.
IfLessOrEqual_impls_strict(Output, Lhs, Rhs) ==
    IF IsLess(Lhs, Rhs) /\ IfPredicate(Output, Le(Lhs, Rhs)) # Fail /\ Le(Lhs, Rhs) \in Boolean
    THEN {Impl("IfLessOrEqual<Lhs, Rhs>", IfPredicateOutput(Output, Le(Lhs, Rhs)))}
    ELSE {}

\* impl<Lhs, Rhs, Output> IfLessOrEqual<Lhs, Rhs> for Output
\*   where Lhs: IsLessOrEqual<Rhs>, Output: IfPredicate<LeEq<Lhs, Rhs>>, LeEq<Lhs, Rhs>: Boolean
IfLessOrEqual_impls(Output, Lhs, Rhs) ==
    IF IsLessOrEqual(Lhs, Rhs) /\ IfPredicate(Output, LeEq(Lhs, Rhs)) # Fail /\ LeEq(Lhs, Rhs) \in Boolean
    THEN {Impl("IfLessOrEqual<Lhs, Rhs>", IfPredicateOutput(Output, LeEq(Lhs, Rhs)))}
    ELSE {}

IfLessOrEqual(Output, Lhs, Rhs) ==
    IF WellFormed(Output) /\ WellFormed(Lhs) /\ WellFormed(Rhs)
    THEN Project(IfLessOrEqual_impls(Output, Lhs, Rhs))
    ELSE Fail

IfLessOrEqualOutput(Output, Lhs, Rhs) == IfLessOrEqual(Output, Lhs, Rhs)

(* if greater than *)

\* Variant of IfGreater_impls that compares with the non-strict relation GrEq.
IfGreater_impls_orEqual(Output, Lhs, Rhs) ==
    IF IsGreaterOrEqual(Lhs, Rhs) /\ IfPredicate(Output, GrEq(Lhs, Rhs)) # Fail /\ GrEq(Lhs, Rhs) \in Boolean
    THEN {Impl("IfGreater<Lhs, Rhs>", IfPredicateOutput(Output, GrEq(Lhs, Rhs)))}
    ELSE {}

\* impl<Lhs, Rhs, Output> IfGreater<Lhs, Rhs> for Output
\*   where Lhs: IsGreater<Rhs>, Output: IfPredicate<Gr<Lhs, Rhs>>, Gr<Lhs, Rhs>: Boolean
IfGreater_impls(Output, Lhs, Rhs) ==
    IF IsGreater(Lhs, Rhs) /\ IfPredicate(Output, Gr(Lhs, Rhs)) # Fail /\ Gr(Lhs, Rhs) \in Boolean
    THEN {Impl("IfGreater<Lhs, Rhs>", IfPredicateOutput(Output, Gr(Lhs, Rhs)))}
    ELSE {}

IfGreater(Output, Lhs, Rhs) ==
    IF WellFormed(Output) /\ WellFormed(Lhs) /\ WellFormed(Rhs)
    THEN Project(IfGreater_impls(Output, Lhs, Rhs))
    ELSE Fail

IfGreaterOutput(Output, Lhs, Rhs) == IfGreater(Output, Lhs, Rhs)

(* if greater than or equal *)

\* impl<Lhs, Rhs, Output> IfGreaterOrEqual<Lhs, Rhs> for Output
\*   where Lhs: IsGreaterOrEqual<Rhs>, Output: IfPredicate<GrEq<Lhs, Rhs>>, GrEq<Lhs, Rhs>: Boolean
IfGreaterOrEqual_impls(Output, Lhs, Rhs) ==
    IF IsGreaterOrEqual(Lhs, Rhs) /\ IfPredicate(Output, GrEq(Lhs, Rhs)) # Fail /\ GrEq(Lhs, Rhs) \in Boolean
    THEN {Impl("IfGreaterOrEqual<Lhs, Rhs>", IfPredicateOutput(Output, GrEq(Lhs, Rhs)))}
    ELSE {}

IfGreaterOrEqual(Output, Lhs, Rhs) ==
    IF WellFormed(Output) /\ WellFormed(Lhs) /\ WellFormed(Rhs)
    THEN Project(IfGreaterOrEqual_impls(Output, Lhs, Rhs))
    ELSE Fail

IfGreaterOrEqualOutput(Output, Lhs, Rhs) == IfGreaterOrEqual(Output, Lhs, Rhs)

(* if equal *)

\* impl<Lhs, Rhs, Output> IfEqual<Lhs, Rhs> for Output
\*   where Lhs: IsEqual<Rhs>, Output: IfPredicate<Eq<Lhs, Rhs>>, Eq<Lhs, Rhs>: Boolean
IfEqual_impls(Output, Lhs, Rhs) ==
    IF IsEqual(Lhs, Rhs) /\ IfPredicate(Output, Eq(Lhs, Rhs)) # Fail /\ Eq(Lhs, Rhs) \in Boolean
    THEN {Impl("IfEqual<Lhs, Rhs>", IfPredicateOutput(Output, Eq(Lhs, Rhs)))}
    ELSE {}

IfEqual(Output, Lhs, Rhs) ==
    IF WellFormed(Output) /\ WellFormed(Lhs) /\ WellFormed(Rhs)
    THEN Project(IfEqual_impls(Output, Lhs, Rhs))
    ELSE Fail

IfEqualOutput(Output, Lhs, Rhs) == IfEqual(Output, Lhs, Rhs)

-----------------------------------------------------------------------------
(* The state machine: the compiler resolves the items of a program one at a
   time.  item names the trait or alias being resolved ("none": between
   items), args its type arguments, applied the impl blocks of the trait
   that applied, out the resolved type.  An item that resolves is accepted
   and the next one is taken; an item that resolves to Fail is a compile
   error and nothing follows it. *)

Init ==
    /\ item = "none"
    /\ args = <<>>
    /\ applied = {}
    /\ out = None

\* IfOutput has no trait of this module behind it.
Resolve_IfOutput ==
    /\ item = "none"
    /\ \E Output \in SelfTy, Cond \in Ty :
           /\ item' = "IfOutput"
           /\ args' = <<Output, Cond>>
           /\ applied' = {}
           /\ out' = IfOutput(Output, Cond)

Resolve_IfSame ==
    /\ item = "none"
    /\ \E Output \in SelfTy, Lhs \in Ty, Rhs \in Ty :
           /\ item' = "IfSame"
           /\ args' = <<Output, Lhs, Rhs>>
           /\ applied' = IfSame_impls(Output, Lhs, Rhs)
           /\ out' = IfSame(Output, Lhs, Rhs)

Resolve_IfSameOutput ==
    /\ item = "none"
    /\ \E Output \in SelfTy, Lhs \in Ty, Rhs \in Ty :
           /\ item' = "IfSameOutput"
           /\ args' = <<Output, Lhs, Rhs>>
           /\ applied' = IfSame_impls(Output, Lhs, Rhs)
           /\ out' = IfSameOutput(Output, Lhs, Rhs)

Resolve_IfPredicate ==
    /\ item = "none"
    /\ \E Output \in SelfTy, Cond \in Ty :
           /\ item' = "IfPredicate"
           /\ args' = <<Output, Cond>>
           /\ applied' = IfPredicate_impls(Output, Cond)
           /\ out' = IfPredicate(Output, Cond)

Resolve_IfPredicateOutput ==
    /\ item = "none"
    /\ \E Output \in SelfTy, Cond \in Ty :
           /\ item' = "IfPredicateOutput"
           /\ args' = <<Output, Cond>>
           /\ applied' = IfPredicate_impls(Output, Cond)
           /\ out' = IfPredicateOutput(Output, Cond)

Resolve_IfElsePredicate ==
    /\ item = "none"
    /\ \E Self \in SelfTy, Cond \in Ty :
           /\ item' = "IfElsePredicate"
           /\ args' = <<Self, Cond>>
           /\ applied' = IfElsePredicate_impls(Self, Cond)
           /\ out' = IfElsePredicate(Self, Cond)

Resolve_IfElsePredicateOutput ==
    /\ item = "none"
    /\ \E TrueOutput \in Ty, FalseOutput \in Ty, Cond \in Ty :
           /\ item' = "IfElsePredicateOutput"
           /\ args' = <<TrueOutput, FalseOutput, Cond>>
           /\ applied' = IfElsePredicate_impls(Tuple(TrueOutput, FalseOutput), Cond)
           /\ out' = IfElsePredicateOutput(TrueOutput, FalseOutput, Cond)

Resolve_IfNotPredicate ==
    /\ item = "none"
    /\ \E Output \in SelfTy, Cond \in Ty :
           /\ item' = "IfNotPredicate"
           /\ args' = <<Output, Cond>>
           /\ applied' = IfNotPredicate_impls(Output, Cond)
           /\ out' = IfNotPredicate(Output, Cond)

\* The alias projects through IfPredicate, so those are the impls consulted.
Resolve_IfNotPredicateOutput ==
    /\ item = "none"
    /\ \E Output \in SelfTy, Cond \in Ty :
           /\ item' = "IfNotPredicateOutput"
           /\ args' = <<Output, Cond>>
           /\ applied' = IfPredicate_impls(Output, Cond)
           /\ out' = IfNotPredicateOutput(Output, Cond)

Resolve_IfLess ==
    /\ item = "none"
    /\ \E Output \in SelfTy, Lhs \in Ty, Rhs \in Ty :
           /\ item' = "IfLess"
           /\ args' = <<Output, Lhs, Rhs>>
           /\ applied' = IfLess_impls(Output, Lhs, Rhs)
           /\ out' = IfLess(Output, Lhs, Rhs)

Resolve_IfLessOutput ==
    /\ item = "none"
    /\ \E Output \in SelfTy, Lhs \in Ty, Rhs \in Ty :
           /\ item' = "IfLessOutput"
           /\ args' = <<Output, Lhs, Rhs>>
           /\ applied' = IfLess_impls(Output, Lhs, Rhs)
           /\ out' = IfLessOutput(Output, Lhs, Rhs)

Resolve_IfLessOrEqual ==
    /\ item = "none"
    /\ \E Output \in SelfTy, Lhs \in Ty, Rhs \in Ty :
           /\ item' = "IfLessOrEqual"
           /\ args' = <<Output, Lhs, Rhs>>
           /\ applied' = IfLessOrEqual_impls(Output, Lhs, Rhs)
           /\ out' = IfLessOrEqual(Output, Lhs, Rhs)

Resolve_IfLessOrEqualOutput ==
    /\ item = "none"
    /\ \E Output \in SelfTy, Lhs \in Ty, Rhs \in Ty :
           /\ item' = "IfLessOrEqualOutput"
           /\ args' = <<Output, Lhs, Rhs>>
           /\ applied' = IfLessOrEqual_impls(Output, Lhs, Rhs)
           /\ out' = IfLessOrEqualOutput(Output, Lhs, Rhs)

Resolve_IfGreater ==
    /\ item = "none"
    /\ \E Output \in SelfTy, Lhs \in Ty, Rhs \in Ty :
           /\ item' = "IfGreater"
           /\ args' = <<Output, Lhs, Rhs>>
           /\ applied' = IfGreater_impls(Output, Lhs, Rhs)
           /\ out' = IfGreater(Output, Lhs, Rhs)

Resolve_IfGreaterOutput ==
    /\ item = "none"
    /\ \E Output \in SelfTy, Lhs \in Ty, Rhs \in Ty :
           /\ item' = "IfGreaterOutput"
           /\ args' = <<Output, Lhs, Rhs>>
           /\ applied' = IfGreater_impls(Output, Lhs, Rhs)
           /\ out' = IfGreaterOutput(Output, Lhs, Rhs)

Resolve_IfGreaterOrEqual ==
    /\ item = "none"
    /\ \E Output \in SelfTy, Lhs \in Ty, Rhs \in Ty :
           /\ item' = "IfGreaterOrEqual"
           /\ args' = <<Output, Lhs, Rhs>>
           /\ applied' = IfGreaterOrEqual_impls(Output, Lhs, Rhs)
           /\ out' = IfGreaterOrEqual(Output, Lhs, Rhs)

Resolve_IfGreaterOrEqualOutput ==
    /\ item = "none"
    /\ \E Output \in SelfTy, Lhs \in Ty, Rhs \in Ty :
           /\ item' = "IfGreaterOrEqualOutput"
           /\ args' = <<Output, Lhs, Rhs>>
           /\ applied' = IfGreaterOrEqual_impls(Output, Lhs, Rhs)
           /\ out' = IfGreaterOrEqualOutput(Output, Lhs, Rhs)

Resolve_IfEqual ==
    /\ item = "none"
    /\ \E Output \in SelfTy, Lhs \in Ty, Rhs \in Ty :
           /\ item' = "IfEqual"
           /\ args' = <<Output, Lhs, Rhs>>
           /\ applied' = IfEqual_impls(Output, Lhs, Rhs)
           /\ out' = IfEqual(Output, Lhs, Rhs)

Resolve_IfEqualOutput ==
    /\ item = "none"
    /\ \E Output \in SelfTy, Lhs \in Ty, Rhs \in Ty :
           /\ item' = "IfEqualOutput"
           /\ args' = <<Output, Lhs, Rhs>>
           /\ applied' = IfEqual_impls(Output, Lhs, Rhs)
           /\ out' = IfEqualOutput(Output, Lhs, Rhs)

\* The item type-checked: the compiler goes on to the next item.
Accept ==
    /\ item # "none"
    /\ out # Fail
    /\ item' = "none"
    /\ args' = <<>>
    /\ applied' = {}
    /\ out' = None

Next ==
    \/ Accept
    \/ Resolve_IfOutput
    \/ Resolve_IfSame
    \/ Resolve_IfSameOutput
    \/ Resolve_IfPredicate
    \/ Resolve_IfPredicateOutput
    \/ Resolve_IfElsePredicate
    \/ Resolve_IfElsePredicateOutput
    \/ Resolve_IfNotPredicate
    \/ Resolve_IfNotPredicateOutput
    \/ Resolve_IfLess
    \/ Resolve_IfLessOutput
    \/ Resolve_IfLessOrEqual
    \/ Resolve_IfLessOrEqualOutput
    \/ Resolve_IfGreater
    \/ Resolve_IfGreaterOutput
    \/ Resolve_IfGreaterOrEqual
    \/ Resolve_IfGreaterOrEqualOutput
    \/ Resolve_IfEqual
    \/ Resolve_IfEqualOutput

Spec == Init /\ [][Next]_vars

-----------------------------------------------------------------------------
(* Properties *)

\* C1: on a well-formed Output and a Boolean Cond, IfPredicate<Cond> resolves
\* if and only if Cond is True, and then its result is exactly Output; for
\* Cond = False no impl applies and resolution fails.
C1_IfPredicateIffTrue ==
    (item \in {"IfPredicate", "IfPredicateOutput"} /\ WellFormed(args[1])
       /\ args[2] \in Boolean)
    => /\ (out # Fail) <=> (args[2] = True)
       /\ out # Fail => out = args[1]
       /\ args[2] = False => (applied = {} /\ out = Fail)

C1_Witness == item = "IfPredicate" /\ args = <<Unit, True>> /\ out = Unit

\* C2: on a well-formed Output and a Boolean Cond, IfNotPredicate<Cond>
\* resolves, to Output, if and only if Cond is False, and exactly one of
\* IfPredicate<Cond> and IfNotPredicate<Cond> resolves.
C2_ExactlyOnePredicate ==
    /\ (item = "IfNotPredicate" /\ WellFormed(args[1]) /\ args[2] \in Boolean)
       => /\ (out # Fail) <=> (args[2] = False)
          /\ out # Fail => out = args[1]
          /\ (out # Fail) <=> (IfPredicate(args[1], args[2]) = Fail)
    /\ (item = "IfPredicate" /\ WellFormed(args[1]) /\ args[2] \in Boolean)
       => ((out # Fail) <=> (IfNotPredicate(args[1], args[2]) = Fail))

C2_Witness == item = "IfNotPredicate" /\ args = <<U8, False>> /\ out = U8

\* C3: every alias If<Relation>Output resolves exactly when the trait
\* If<Relation> resolves for the same arguments, and to the same type; in
\* particular IfNotPredicateOutput<Output, Cond> resolves to Output if and
\* only if Cond is False.
C3_AliasNamesTraitResult ==
    /\ item = "IfSameOutput" => out = IfSame(args[1], args[2], args[3])
    /\ item = "IfLessOutput" => out = IfLess(args[1], args[2], args[3])
    /\ item = "IfLessOrEqualOutput" => out = IfLessOrEqual(args[1], args[2], args[3])
    /\ item = "IfGreaterOutput" => out = IfGreater(args[1], args[2], args[3])
    /\ item = "IfGreaterOrEqualOutput" => out = IfGreaterOrEqual(args[1], args[2], args[3])
    /\ item = "IfEqualOutput" => out = IfEqual(args[1], args[2], args[3])
    /\ item = "IfPredicateOutput" => out = IfPredicate(args[1], args[2])
    /\ item = "IfElsePredicateOutput"
       => out = IfElsePredicate(Tuple(args[1], args[2]), args[3])
    /\ item = "IfNotPredicateOutput" => out = IfNotPredicate(args[1], args[2])
    /\ (item = "IfNotPredicateOutput" /\ WellFormed(args[1]) /\ args[2] \in Boolean)
       => ((out = args[1]) <=> (args[2] = False))

\* C4: for well-formed TrueOutput and FalseOutput (distinct or not) and a
\* Boolean Cond, IfElsePredicate<Cond> always resolves, to TrueOutput when
\* Cond is True and to FalseOutput when Cond is False.
C4_IfElseSelectsBranch ==
    /\ (item = "IfElsePredicateOutput" /\ WellFormed(args[1]) /\ WellFormed(args[2])
          /\ args[3] \in Boolean)
       => /\ out # Fail
          /\ out = (IF args[3] = True THEN args[1] ELSE args[2])
    /\ (item = "IfElsePredicate" /\ args[1].k = "tuple" /\ args[2] \in Boolean)
       => /\ out # Fail
          /\ out = (IF args[2] = True THEN args[1].fst ELSE args[1].snd)

C4_Witness == item = "IfElsePredicateOutput" /\ args = <<Unit, U8, False>> /\ out = U8

\* C5: for numerals A and B and a well-formed Output, each ordering assertion
\* resolves exactly when its relation holds between A and B, and then yields
\* Output unchanged; otherwise resolution fails.
C5_OrderingIffRelation ==
    /\ (item \in {"IfLess", "IfLessOutput"} /\ WellFormed(args[1])
          /\ args[2] \in Numerals /\ args[3] \in Numerals)
       => out = (IF args[2].v < args[3].v THEN args[1] ELSE Fail)
    /\ (item \in {"IfLessOrEqual", "IfLessOrEqualOutput"} /\ WellFormed(args[1])
          /\ args[2] \in Numerals /\ args[3] \in Numerals)
       => out = (IF args[2].v <= args[3].v THEN args[1] ELSE Fail)
    /\ (item \in {"IfGreater", "IfGreaterOutput"} /\ WellFormed(args[1])
          /\ args[2] \in Numerals /\ args[3] \in Numerals)
       => out = (IF args[2].v > args[3].v THEN args[1] ELSE Fail)
    /\ (item \in {"IfGreaterOrEqual", "IfGreaterOrEqualOutput"} /\ WellFormed(args[1])
          /\ args[2] \in Numerals /\ args[3] \in Numerals)
       => out = (IF args[2].v >= args[3].v THEN args[1] ELSE Fail)
    /\ (item \in {"IfEqual", "IfEqualOutput"} /\ WellFormed(args[1])
          /\ args[2] \in Numerals /\ args[3] \in Numerals)
       => out = (IF args[2].v = args[3].v THEN args[1] ELSE Fail)

C5_Witness == item = "IfLessOrEqual" /\ args = <<Unit, Num(1), Num(1)>> /\ out = Unit

\* C6: for well-formed Lhs, Rhs and Output, IfSame<Lhs, Rhs> resolves if and
\* only if Lhs and Rhs are the identical type, and then its result is Output.
C6_IfSameIffIdentical ==
    (item \in {"IfSame", "IfSameOutput"} /\ WellFormed(args[1]) /\ WellFormed(args[2])
       /\ WellFormed(args[3]))
    => out = (IF args[2] = args[3] THEN args[1] ELSE Fail)

C6_Witness == item = "IfSame" /\ args = <<Unit, U8, U8>> /\ out = Unit

\* C7: for every pair of numerals and every well-formed Output, exactly one of
\* IfLess, IfEqual and IfGreater resolves.
C7_Trichotomy ==
    (item \in {"IfLess", "IfEqual", "IfGreater"} /\ WellFormed(args[1])
       /\ args[2] \in Numerals /\ args[3] \in Numerals)
    => Cardinality({t \in {"IfLess", "IfEqual", "IfGreater"} :
           (IF t = item THEN out
            ELSE IF t = "IfLess" THEN IfLess(args[1], args[2], args[3])
            ELSE IF t = "IfEqual" THEN IfEqual(args[1], args[2], args[3])
            ELSE IfGreater(args[1], args[2], args[3])) # Fail}) = 1

C7_Witness == item = "IfEqual" /\ args = <<Unit, Num(1), Num(1)>> /\ out = Unit

\* C8: on a well-formed Output, IfOutput<Output, Cond> resolves to Output for
\* every well-formed Cond, whatever it is, and fails only when Cond is not a
\* constructible type.
C8_IfOutputIgnoresCond ==
    (item = "IfOutput" /\ WellFormed(args[1]))
    => out = (IF WellFormed(args[2]) THEN args[1] ELSE Fail)

C8_Witness == item = "IfOutput" /\ args = <<Num(MaxNum), Unit>> /\ out = Num(MaxNum)

\* C9: for every relation-assertion trait and every choice of inputs at most
\* one impl applies, a resolved item has exactly one impl and its output is the
\* result, and an ordering impl applies only if the whole chain numeral
\* ordering -> Boolean result -> IfPredicate resolves.
C9_AtMostOneImpl ==
    /\ Cardinality(applied) <= 1
    /\ (item \notin {"none", "IfOutput"} /\ out # Fail)
       => (Cardinality(applied) = 1 /\ \A i \in applied : i.out = out)
    /\ (item \in {"IfLess", "IfLessOutput"} /\ applied # {})
       => /\ IsLess(args[2], args[3])
          /\ Le(args[2], args[3]) \in Boolean
          /\ IfPredicate(args[1], Le(args[2], args[3])) # Fail
    /\ (item \in {"IfLessOrEqual", "IfLessOrEqualOutput"} /\ applied # {})
       => /\ IsLessOrEqual(args[2], args[3])
          /\ LeEq(args[2], args[3]) \in Boolean
          /\ IfPredicate(args[1], LeEq(args[2], args[3])) # Fail
    /\ (item \in {"IfGreater", "IfGreaterOutput"} /\ applied # {})
       => /\ IsGreater(args[2], args[3])
          /\ Gr(args[2], args[3]) \in Boolean
          /\ IfPredicate(args[1], Gr(args[2], args[3])) # Fail
    /\ (item \in {"IfGreaterOrEqual", "IfGreaterOrEqualOutput"} /\ applied # {})
       => /\ IsGreaterOrEqual(args[2], args[3])
          /\ GrEq(args[2], args[3]) \in Boolean
          /\ IfPredicate(args[1], GrEq(args[2], args[3])) # Fail
    /\ (item \in {"IfEqual", "IfEqualOutput"} /\ applied # {})
       => /\ IsEqual(args[2], args[3])
          /\ Eq(args[2], args[3]) \in Boolean
          /\ IfPredicate(args[1], Eq(args[2], args[3])) # Fail

C9_Witness == item = "IfLess" /\ Cardinality(applied) = 1 /\ out = args[1] /\ out = U8

\* C10: if IfLess<A, B> and IfLess<B, C> both resolve on Output then
\* IfLess<A, C> resolves too, to Output.
C10_IfLessTransitive ==
    (item = "IfLess" /\ out # Fail)
    => \A C \in Ty :
          IfLess(args[1], args[3], C) # Fail => IfLess(args[1], args[2], C) = args[1]

C10_Witness ==
    /\ item = "IfLess" /\ args = <<Unit, Num(0), Num(1)>> /\ out = Unit
    /\ IfLess(Unit, Num(1), Num(MaxNum)) = Unit

====
